---- MODULE Spec2Model ----
(***************************************************************************)
(* Strike Finance liquidity monitor: the consensus decision of one         *)
(* monitoring cycle (strike_monitor.py, MultiLayerMonitor), the trend      *)
(* history, and the tiered retention sweep of the debug artifacts          *)
(* (cleanup_debug_files.py, DebugFileManager).                             *)
(*                                                                         *)
(* Confidences are held in hundredths (0.95 is 95).  Times are seconds.    *)
(***************************************************************************)
EXTENDS Integers, Sequences, FiniteSets, TLC

VARIABLES
    use_selenium,       \* MonitorConfig.use_selenium
    http_in,            \* what the HTTP probe met in the last cycle (Failed, or the number of capped indicators)
    sel_in,             \* what the Selenium probe met in the last cycle (NotRun, Failed, or its capped votes)
    results,            \* consensus_check: the list `results` of the last cycle
    decision,           \* consensus_check: the returned (final_state, confidence_level)
    disagree,           \* consensus_check: the "Methods disagree" warning was logged in the last cycle
    save_calls,         \* number of _save_debug_info invocations so far
    cycle,              \* number of consensus_check calls so far
    historical_states,  \* MultiLayerMonitor.historical_states
    trend,              \* the last value returned by analyze_trend
    passed,             \* every state handed to analyze_trend so far, in call order (history variable)
    now,                \* datetime.now(), in seconds
    store,              \* the files of the logs directory
    stats,              \* the value returned by the cleanup_files call that has just ended
    run,                \* what that call grouped, kept and marked for deletion (history variable)
    settled,            \* the last change of store or clock was a real sweep without a failed deletion (history variable)
    mode,               \* cleanup_files in steps: "idle", or the kind of the sweep under way ("dry", "real")
    pending,            \* cleanup_files in steps: the files still to hand to _delete_file
    tally,              \* cleanup_files in steps: the local `stats` of the sweep under way
    planned,            \* the files the sweep under way marked for deletion when it listed (history variable)
    attempts,           \* the _delete_file calls of the sweep under way and what each met (history variable)
    last_alerts,        \* AlertManager.last_alerts
    sent,               \* the alerts dispatched so far: kind, time, confidence (history variable)
    request,            \* the last send_alert call and whether it dispatched (history variable)
    channels,           \* AlertManager.config: the channels that are configured
    delivery,           \* the delivery attempts of the last send_alert call, per channel (history variable)
    pc,                 \* run_monitor: the step of the cycle the loop is at
    last_state,         \* run_monitor: last_state
    last_confidence,    \* run_monitor: last_confidence
    consecutive_failures, \* run_monitor: consecutive_failures
    last_cleanup,       \* run_monitor: last_cleanup
    requested,          \* the send_alert calls of the current cycle: kind and confidence (history variable)
    prev_state,         \* the state decided by the last cycle before this one that decided (history variable)
    prev_label,         \* the confidence label decided by that cycle (history variable)
    unknown_streak,     \* number of cycles in a row, up to now, in which no observer answered (history variable)
    events              \* the steps of the current cycle, in the order they ran (history variable)

vars == << use_selenium, http_in, sel_in, results, decision, disagree, save_calls, cycle,
           historical_states, trend, passed, now, store, stats, run, settled,
           mode, pending, tally, planned, attempts, last_alerts, sent, request,
           channels, delivery,
           pc, last_state, last_confidence, consecutive_failures, last_cleanup,
           requested, prev_state, prev_label, unknown_streak, events >>

consensusVars == << use_selenium, http_in, sel_in, results, decision, disagree, save_calls, cycle >>
trendVars == << historical_states, trend, passed >>
sweepVars == << stats, run, settled >>
stepVars == << mode, pending, tally, planned, attempts >>
alertVars == << last_alerts, sent, request, channels, delivery >>
loopVars == << pc, last_state, last_confidence, consecutive_failures, last_cleanup,
               requested, prev_state, prev_label, unknown_streak, events >>

----------------------------------------------------------------------------
(* Bounds of the model *)

MaxCycles == 3
MaxCalls == 12
MaxFiles == 3
MaxMinutes == 5
MaxDays == 1

----------------------------------------------------------------------------
(* Observers: check_with_requests and check_with_selenium *)

Failed == -1
NotRun == -2

HttpIndicators == 8
SeleniumMethods == 3

HttpAgreeConf == 95
HttpMixedConf == 40
SeleniumOtherConf == 70
SeleniumAgreeConf == 80
SeleniumMixedConf == 40

\* An observer's return value: result is Optional[bool] ("None", "True", "False").
Obs(result, conf) == [result |-> result, conf |-> conf]

PyBool(b) == IF b THEN "True" ELSE "False"

\* calculate_confidence(capped_indicators, method); the indicator list is held by
\* its number of True entries: all(l) is capped = total, any(l) is capped > 0.
calculate_confidence(capped, total, method) ==
    IF method = "requests"
    THEN IF capped = total \/ ~(capped > 0) THEN HttpAgreeConf ELSE HttpMixedConf
    ELSE SeleniumOtherConf

\* check_with_requests: h is Failed (any exception inside the try) or capped_count.
check_with_requests(h) ==
    IF h = Failed
    THEN Obs("None", 0)
    ELSE LET confidence == calculate_confidence(h, HttpIndicators, "requests")
             available == IF confidence < 50
                          THEN TRUE
                          ELSE 2 * h < HttpIndicators
         IN  Obs(PyBool(available), confidence)

\* check_with_selenium: s is Failed or capped_votes of the three detection methods.
check_with_selenium(s) ==
    IF s = Failed
    THEN Obs("None", 0)
    ELSE LET is_capped == 4 * s >= 3 * SeleniumMethods
             confidence == IF s \in {0, SeleniumMethods} THEN SeleniumAgreeConf ELSE SeleniumMixedConf
         IN  Obs(PyBool(~is_capped), confidence)

----------------------------------------------------------------------------
(* consensus_check *)

RECURSIVE SumConf(_)
SumConf(rs) == IF rs = <<>> THEN 0 ELSE Head(rs)[3] + SumConf(Tail(rs))

AvailableVotes(rs) == Cardinality({i \in 1..Len(rs) : rs[i][2] = "True"})

\* lines 433-444: the observations that are not None, HTTP first.
CollectResults(r1, r2) ==
    (IF r1.result # "None" THEN << <<"HTTP", r1.result, r1.conf>> >> ELSE <<>>)
    \o (IF r2.result # "None" THEN << <<"Selenium", r2.result, r2.conf>> >> ELSE <<>>)

HighAvailableThreshold == 70
HighCappedThreshold == 80

\* lines 462: the label of an Available decision reached by vote.
\* avg_confidence > 0.7 is total_confidence / n > 0.7, in hundredths total > 70 n.
AvailableLabel(rs) ==
    IF SumConf(rs) > HighAvailableThreshold * Len(rs) THEN "HIGH" ELSE "UNCERTAIN"

StrongCapped_anyConfidence(rs) == AvailableVotes(rs) = 0

\* lines 465: strong consensus for capped.
StrongCapped_ge(rs) ==
    SumConf(rs) >= HighCappedThreshold * Len(rs) /\ AvailableVotes(rs) = 0

StrongCapped(rs) ==
    SumConf(rs) > HighCappedThreshold * Len(rs) /\ AvailableVotes(rs) = 0

AllFailedDecision_available == << TRUE, "ERROR" >>

\* line 448: the return value when every method failed.
AllFailedDecision_uncertain == << FALSE, "UNCERTAIN" >>

AllFailedDecision == << FALSE, "ERROR" >>

\* lines 446-472: (final_state, confidence_level) from the list of results.
\* available_votes >= total_votes * 0.5 is 2 * available_votes >= total_votes.
ConsensusDecision_majority(rs) ==
    IF rs = <<>>
    THEN AllFailedDecision
    ELSE IF 2 * AvailableVotes(rs) > Len(rs)
         THEN << TRUE, AvailableLabel(rs) >>
         ELSE IF StrongCapped(rs)
              THEN << FALSE, "HIGH" >>
              ELSE << TRUE, "UNCERTAIN" >>

ConsensusDecision(rs) ==
    IF rs = <<>>
    THEN AllFailedDecision
    ELSE IF 2 * AvailableVotes(rs) >= Len(rs)
         THEN << TRUE, AvailableLabel(rs) >>
         ELSE IF StrongCapped(rs)
              THEN << FALSE, "HIGH" >>
              ELSE << TRUE, "UNCERTAIN" >>

\* line 475: the methods disagree.
MethodsDisagree_any(rs) == Len(rs) > 1

MethodsDisagree(rs) ==
    Len(rs) > 1 /\ Cardinality({rs[i][2] : i \in 1..Len(rs)}) > 1

----------------------------------------------------------------------------
(* _save_debug_info *)

File(kind, ts) == [kind |-> kind, ts |-> ts]

SaveOutcomes == {"ok", "no_dir", "no_driver", "no_source"}

SavedFiles_noteLast(t, outcome) ==
    CASE outcome = "no_dir"    -> {}
      [] outcome = "no_driver" -> {}
      [] outcome = "no_source" -> {File("screenshot", t)}
      [] OTHER                 -> {File("analysis", t), File("screenshot", t), File("source", t)}

\* lines 484-521: the files written before the first exception (all of them when
\* there is none); every exception is swallowed at line 520.
SavedFiles(t, outcome) ==
    CASE outcome = "no_dir"    -> {}
      [] outcome = "no_driver" -> {File("analysis", t)}
      [] outcome = "no_source" -> {File("analysis", t), File("screenshot", t)}
      [] OTHER                 -> {File("analysis", t), File("screenshot", t), File("source", t)}

----------------------------------------------------------------------------
(* analyze_trend *)

max_history == 10

\* lines 411-413: append, then drop the oldest entry when over max_history.
AppendState_popNewest(hist, s) ==
    LET h == Append(hist, s)
    IN  IF Len(h) > max_history THEN SubSeq(h, 1, Len(h) - 1) ELSE h

AppendState(hist, s) ==
    LET h == Append(hist, s)
    IN  IF Len(h) > max_history THEN Tail(h) ELSE h

\* lines 415-425: the label of a history.
ClassifyTrend_oldest(hist) ==
    IF Len(hist) < 3
    THEN "INSUFFICIENT_DATA"
    ELSE LET recent_states == SubSeq(hist, 1, 3)
         IN  IF \A i \in 1..3 : recent_states[i]
             THEN "CONSISTENTLY_AVAILABLE"
             ELSE IF ~(\E i \in 1..3 : recent_states[i])
                  THEN "CONSISTENTLY_CAPPED"
                  ELSE "FLUCTUATING"

ClassifyTrend(hist) ==
    IF Len(hist) < 3
    THEN "INSUFFICIENT_DATA"
    ELSE LET recent_states == SubSeq(hist, Len(hist) - 2, Len(hist))
         IN  IF \A i \in 1..3 : recent_states[i]
             THEN "CONSISTENTLY_AVAILABLE"
             ELSE IF ~(\E i \in 1..3 : recent_states[i])
                  THEN "CONSISTENTLY_CAPPED"
                  ELSE "FLUCTUATING"

----------------------------------------------------------------------------
(* Initial values shared by the specifications *)

NoDecision == << FALSE, "NONE" >>

NoStats == [kept |-> 0, deleted |-> 0, errors |-> 0]

NoRun == [at |-> -1, dry_run |-> FALSE, kept |-> {}, marked |-> {}, failed |-> {},
          zone |-> [z \in {"keep_all", "hourly_zone", "daily_zone", "weekly_zone", "expired"} |-> {}],
          before |-> {}, after |-> {}, repeat |-> FALSE, prev_deleted |-> 0]

ConsensusIdle ==
    /\ http_in = NotRun
    /\ sel_in = NotRun
    /\ results = <<>>
    /\ decision = NoDecision
    /\ disagree = FALSE
    /\ save_calls = 0
    /\ cycle = 0

TrendIdle ==
    /\ historical_states = <<>>
    /\ trend = "NONE"
    /\ passed = <<>>

SweepIdle ==
    /\ stats = NoStats
    /\ run = NoRun
    /\ settled = FALSE

\* cleanup_files in steps: no sweep is under way
StepIdle ==
    /\ mode = "idle"
    /\ pending = <<>>
    /\ tally = NoStats
    /\ planned = <<>>
    /\ attempts = <<>>

\* AlertManager.__init__, line 62: last_alerts = {}
NoAlerts == [k \in {} |-> 0]

NoRequest == [kind |-> "NONE", confidence |-> "NONE", at |-> -1, dispatched |-> FALSE]

\* lines 94-125, 127-152, 154-182: what the coroutine of a channel does; the
\* exception of a delivery that fails is caught and logged (lines 124, 151, 181)
ChannelReturns(raises) == IF raises THEN "logged" ELSE "delivered"

\* lines 78-92: one task for each configured channel, each awaited once; failed
\* are the channels whose delivery raises
DeliveryOf(chs, failed) ==
    [attempts |-> [c \in chs |-> 1],
     results |-> [c \in chs |-> ChannelReturns(c \in failed)]]

NoDelivery == DeliveryOf({}, {})

\* no channel is configured (main, lines 630-641, without config.json)
AlertIdle ==
    /\ last_alerts = NoAlerts
    /\ sent = {}
    /\ request = NoRequest
    /\ channels = {}
    /\ delivery = NoDelivery

\* run_monitor, lines 527-531, started at time 0
LoopIdle ==
    /\ pc = "observe"
    /\ last_state = FALSE
    /\ last_confidence = "HIGH"
    /\ consecutive_failures = 0
    /\ last_cleanup = 0
    /\ requested = {}
    /\ prev_state = "none"
    /\ prev_label = "none"
    /\ unknown_streak = 0
    /\ events = <<>>

----------------------------------------------------------------------------
(* One consensus_check call, lines 427-480.  h and s are what the two probes  *)
(* meet, outcome is how far _save_debug_info gets if it is invoked.          *)

HttpInputs == {Failed} \cup (0..HttpIndicators)
SeleniumInputs == {Failed} \cup (0..SeleniumMethods)

consensus_check(h, s, outcome) ==
    /\ cycle < MaxCycles
    /\ IF use_selenium THEN s \in SeleniumInputs ELSE s = NotRun
    /\ LET r1 == check_with_requests(h)
           r2 == IF use_selenium THEN check_with_selenium(s) ELSE Obs("None", 0)
           rs == CollectResults(r1, r2)
           saved == rs # <<>> /\ MethodsDisagree(rs)
       IN  /\ http_in' = h
           /\ sel_in' = s
           /\ results' = rs
           /\ decision' = ConsensusDecision(rs)
           /\ disagree' = saved
           /\ save_calls' = IF saved THEN save_calls + 1 ELSE save_calls
           /\ IF saved
              THEN store' = store \cup SavedFiles(now, outcome)
              ELSE outcome = "ok" /\ store' = store
    /\ cycle' = cycle + 1
    /\ UNCHANGED << use_selenium, now >>
    /\ UNCHANGED trendVars
    /\ UNCHANGED sweepVars
    /\ UNCHANGED stepVars
    /\ UNCHANGED alertVars
    /\ UNCHANGED loopVars

InitConsensus ==
    /\ use_selenium \in BOOLEAN
    /\ ConsensusIdle
    /\ TrendIdle
    /\ SweepIdle
    /\ StepIdle
    /\ AlertIdle
    /\ LoopIdle
    /\ now = 0
    /\ store = {}

NextConsensus ==
    \E h \in HttpInputs, s \in SeleniumInputs \cup {NotRun}, outcome \in SaveOutcomes :
        consensus_check(h, s, outcome)

SpecConsensus == InitConsensus /\ [][NextConsensus]_vars

----------------------------------------------------------------------------
(* One analyze_trend call, lines 409-425 *)

analyze_trend(current_state) ==
    /\ Len(passed) < MaxCalls
    /\ historical_states' = AppendState(historical_states, current_state)
    /\ trend' = ClassifyTrend(historical_states')
    /\ passed' = Append(passed, current_state)
    /\ UNCHANGED consensusVars
    /\ UNCHANGED sweepVars
    /\ UNCHANGED << now, store >>
    /\ UNCHANGED stepVars
    /\ UNCHANGED alertVars
    /\ UNCHANGED loopVars

InitTrend ==
    /\ use_selenium = TRUE
    /\ ConsensusIdle
    /\ TrendIdle
    /\ SweepIdle
    /\ StepIdle
    /\ AlertIdle
    /\ LoopIdle
    /\ now = 0
    /\ store = {}

NextTrend == \E current_state \in BOOLEAN : analyze_trend(current_state)

SpecTrend == InitTrend /\ [][NextTrend]_vars

----------------------------------------------------------------------------
(* DebugFileManager: the listing, the tiers and the thinning *)

keep_all_days == 3
hourly_days == 14
daily_days == 365

SecondsPerDay == 86400
SecondsPerHour == 3600

\* st_size of an artifact, by kind (in KB)
ArtifactSize == [analysis |-> 1, screenshot |-> 300, source |-> 40]

\* lines 49-57: the metadata of one listed file at time t; timedelta.days is the
\* floor of the age in days.
file_info(f, t) ==
    [path |-> f,
     timestamp |-> f.ts,
     age_days |-> (t - f.ts) \div SecondsPerDay,
     size |-> ArtifactSize[f.kind],
     type |-> IF f.kind = "screenshot" THEN "screenshot" ELSE "html"]

RECURSIVE GlobSeq(_)
\* Path.glob: the files of a set in some order
GlobSeq(S) ==
    IF S = {} THEN <<>>
    ELSE LET f == CHOOSE x \in S : TRUE IN <<f>> \o GlobSeq(S \ {f})

RECURSIVE InsertByTimestamp(_, _)
\* x placed behind every entry whose timestamp is not later (list.sort is stable)
InsertByTimestamp(sorted, x) ==
    IF sorted = <<>> THEN <<x>>
    ELSE IF Head(sorted).timestamp <= x.timestamp
         THEN <<Head(sorted)>> \o InsertByTimestamp(Tail(sorted), x)
         ELSE <<x>> \o sorted

RECURSIVE SortByTimestamp(_)
SortByTimestamp(files) ==
    IF files = <<>> THEN <<>>
    ELSE InsertByTimestamp(SortByTimestamp(SubSeq(files, 1, Len(files) - 1)), files[Len(files)])

get_debug_files_htmlFirst(st, t) ==
    LET png == GlobSeq({f \in st : f.kind = "screenshot"})
        html == GlobSeq({f \in st : f.kind = "source"})
        found == html \o png
    IN  SortByTimestamp([i \in 1..Len(found) |-> file_info(found[i], t)])

\* lines 40-63: debug_screenshot_*.png first, then debug_source_*.html, sorted by
\* timestamp.  Two files of one pattern never share a timestamp, so the order of
\* glob does not show in the result.
get_debug_files(st, t) ==
    LET png == GlobSeq({f \in st : f.kind = "screenshot"})
        html == GlobSeq({f \in st : f.kind = "source"})
        found == png \o html
    IN  SortByTimestamp([i \in 1..Len(found) |-> file_info(found[i], t)])

\* lines 79-86: the group of a file, from its age in whole days
Zone_exclusive(age_days) ==
    IF age_days < keep_all_days THEN "keep_all"
    ELSE IF age_days < hourly_days THEN "hourly_zone"
    ELSE IF age_days < daily_days THEN "daily_zone"
    ELSE "expired"

Zone(age_days) ==
    IF age_days <= keep_all_days THEN "keep_all"
    ELSE IF age_days <= hourly_days THEN "hourly_zone"
    ELSE IF age_days <= daily_days THEN "daily_zone"
    ELSE "expired"

ZoneNames == {"keep_all", "hourly_zone", "daily_zone", "weekly_zone", "expired"}

\* lines 65-88
group_files_by_time_period(files) ==
    [z \in ZoneNames |->
        LET InZone(fi) == Zone(fi.age_days) = z
        IN  SelectSeq(files, InZone)]

None == -1

\* lines 101-102: the file at current_time is selected
IsDue_minutes(last_selected_time, current_time, interval_hours) ==
    \/ last_selected_time = None
    \/ current_time - last_selected_time >= interval_hours * 60

IsDue_strict(last_selected_time, current_time, interval_hours) ==
    \/ last_selected_time = None
    \/ current_time - last_selected_time > interval_hours * SecondsPerHour

IsDue(last_selected_time, current_time, interval_hours) ==
    \/ last_selected_time = None
    \/ current_time - last_selected_time >= interval_hours * SecondsPerHour

RECURSIVE SelectLoop(_, _, _)
\* lines 98-104: the loop over the files, from the value of last_selected_time
SelectLoop(files, last_selected_time, interval_hours) ==
    IF files = <<>> THEN <<>>
    ELSE LET current_time == Head(files).timestamp
         IN  IF IsDue(last_selected_time, current_time, interval_hours)
             THEN <<Head(files)>> \o SelectLoop(Tail(files), current_time, interval_hours)
             ELSE SelectLoop(Tail(files), last_selected_time, interval_hours)

\* lines 90-106
select_representative_files(files, interval_hours) ==
    SelectLoop(files, None, interval_hours)

Range(seq) == {seq[i] : i \in 1..Len(seq)}

Paths(files) == {files[i].path : i \in 1..Len(files)}

\* lines 131, 146: [f for f in zone if f not in selected]
NotSelected(zone, selected) ==
    LET Dropped(fi) == fi \notin Range(selected)
    IN  SelectSeq(zone, Dropped)

DeleteReturns_realOnly(dry_run, unlink_raises) == ~dry_run /\ ~unlink_raises

\* lines 173-183: the value _delete_file returns, and whether the file is gone
\* after it; unlink_raises says that Path.unlink raises when it is called.
DeleteReturns(dry_run, unlink_raises) ==
    IF dry_run THEN TRUE ELSE ~unlink_raises

Unlinked_inverted(dry_run, unlink_raises) == dry_run /\ ~unlink_raises

Unlinked(dry_run, unlink_raises) == ~dry_run /\ ~unlink_raises

RECURSIVE SumSize(_)
SumSize(files) == IF files = <<>> THEN 0 ELSE Head(files).size + SumSize(Tail(files))

----------------------------------------------------------------------------
(* One cleanup_files call, lines 108-169.  failing is the set of files whose  *)
(* unlink raises.                                                            *)

\* lines 128-162: the files handed to _delete_file, in the order of the calls
DeletionCandidates(groups) ==
    LET hourly_selected == select_representative_files(groups["hourly_zone"], 1)
        daily_selected == select_representative_files(groups["daily_zone"], 24)
    IN  NotSelected(groups["hourly_zone"], hourly_selected)
        \o NotSelected(groups["daily_zone"], daily_selected)
        \o groups["expired"]

CountedKept_thinnedOnly(groups) ==
    select_representative_files(groups["hourly_zone"], 1)
    \o select_representative_files(groups["daily_zone"], 24)

\* lines 123-124, 133, 148: the files counted in stats['kept']
CountedKept(groups) ==
    groups["keep_all"]
    \o select_representative_files(groups["hourly_zone"], 1)
    \o select_representative_files(groups["daily_zone"], 24)

cleanup_files(dry_run, failing) ==
    LET files == get_debug_files(store, now)
        groups == group_files_by_time_period(files)
        candidates == DeletionCandidates(groups)
        kept == CountedKept(groups)
        Succeeds(fi) == DeleteReturns(dry_run, fi.path \in failing)
        Fails(fi) == ~DeleteReturns(dry_run, fi.path \in failing)
        deleted == SelectSeq(candidates, Succeeds)
        errors == SelectSeq(candidates, Fails)
        gone == {c.path : c \in {c \in Range(candidates) : Unlinked(dry_run, c.path \in failing)}}
    IN  /\ failing \subseteq Paths(candidates)
        /\ dry_run => failing = {}
        /\ stats' = IF files = <<>>
                    THEN [kept |-> 0, deleted |-> 0, errors |-> 0]
                    ELSE [kept |-> Len(kept),
                          deleted |-> Len(deleted),
                          errors |-> Len(errors),
                          size_freed |-> SumSize(deleted)]
        /\ store' = store \ gone
        /\ run' = [at |-> now, dry_run |-> dry_run, kept |-> Paths(kept),
                   marked |-> Paths(candidates), failed |-> Paths(errors),
                   zone |-> [z \in ZoneNames |-> Paths(groups[z])],
                   before |-> store, after |-> store', repeat |-> settled,
                   prev_deleted |-> stats.deleted]
        /\ settled' = IF dry_run THEN settled ELSE (errors = <<>>)
        /\ UNCHANGED now
        /\ UNCHANGED consensusVars
        /\ UNCHANGED trendVars
        /\ UNCHANGED stepVars
        /\ UNCHANGED alertVars
        /\ UNCHANGED loopVars

\* _save_debug_info, lines 482-521, of a cycle whose methods disagree
save_debug_info(outcome) ==
    /\ Cardinality(store \cup SavedFiles(now, outcome)) <= MaxFiles
    /\ store' = store \cup SavedFiles(now, outcome)
    /\ settled' = IF store' = store THEN settled ELSE FALSE
    /\ stats' = NoStats
    /\ run' = NoRun
    /\ UNCHANGED now
    /\ UNCHANGED consensusVars
    /\ UNCHANGED trendVars
    /\ UNCHANGED stepVars
    /\ UNCHANGED alertVars
    /\ UNCHANGED loopVars

\* The capture times of the artifacts found at start, and the times of the clock.
Stamps == {0, 2400, 3600, 4800, 23 * 3600, 24 * 3600, 46 * 3600}

Clock == {3 * 86400 + 3600, 4 * 86400 + 4800, 15 * 86400 + 3600, 100 * 86400,
          366 * 86400 + 3600}

\* time passes
Tick(t) ==
    /\ t > now
    /\ now' = t
    /\ settled' = FALSE
    /\ stats' = NoStats
    /\ run' = NoRun
    /\ UNCHANGED store
    /\ UNCHANGED consensusVars
    /\ UNCHANGED trendVars
    /\ UNCHANGED stepVars
    /\ UNCHANGED alertVars
    /\ UNCHANGED loopVars

\* The capture times at which the page source is found next to the screenshot.
SourceStamps == {0, 3600, 24 * 3600}

FoundAtStart ==
    {File("screenshot", ts) : ts \in Stamps} \cup {File("source", ts) : ts \in SourceStamps}

InitSweep ==
    /\ use_selenium = TRUE
    /\ ConsensusIdle
    /\ TrendIdle
    /\ SweepIdle
    /\ StepIdle
    /\ AlertIdle
    /\ LoopIdle
    /\ now \in Clock
    /\ store \in {S \in SUBSET FoundAtStart : Cardinality(S) <= MaxFiles}

\* the files a sweep of the store would hand to _delete_file now
Deletable ==
    Paths(DeletionCandidates(group_files_by_time_period(get_debug_files(store, now))))

NextSweep ==
    \/ \E dry_run \in BOOLEAN, failing \in SUBSET Deletable : cleanup_files(dry_run, failing)
    \/ \E outcome \in SaveOutcomes : save_debug_info(outcome)
    \/ \E t \in Clock : Tick(t)

SpecSweep == InitSweep /\ [][NextSweep]_vars

----------------------------------------------------------------------------
(* The observations of the last cycle, read from what the probes met *)

HttpObserved ==
    IF http_in \in 0..HttpIndicators
    THEN LET r == check_with_requests(http_in) IN {<<"HTTP", r.result, r.conf>>}
    ELSE {}

SeleniumObserved ==
    IF use_selenium /\ sel_in \in 0..SeleniumMethods
    THEN LET r == check_with_selenium(sel_in) IN {<<"Selenium", r.result, r.conf>>}
    ELSE {}

NonUnknown == {o \in HttpObserved \cup SeleniumObserved : o[2] # "None"}

AvailableObs == {o \in NonUnknown : o[2] = "True"}

CappedObs == {o \in NonUnknown : o[2] = "False"}

RECURSIVE ConfTotal(_)
ConfTotal(S) == IF S = {} THEN 0 ELSE LET o == CHOOSE x \in S : TRUE IN o[3] + ConfTotal(S \ {o})

\* mean confidence of the non-Unknown observations > th / 100
MeanAbove(th) == ConfTotal(NonUnknown) > th * Cardinality(NonUnknown)

BothVerdicts == AvailableObs # {} /\ CappedObs # {}

----------------------------------------------------------------------------
(* Claims on consensus_check, under SpecConsensus *)

\* C1: when the non-Unknown observations of a cycle are not empty and at least half
\* of them (a tie included) report Available, consensus_check returns Available,
\* labelled HIGH exactly when their mean confidence is above 0.7 and UNCERTAIN
\* otherwise; HTTP Capped at 0.95 with Selenium Available at 0.8 gives
\* Available/HIGH and a flagged disagreement.
C1_AvailableOnHalf ==
    /\ (cycle > 0 /\ NonUnknown # {} /\ 2 * Cardinality(AvailableObs) >= Cardinality(NonUnknown))
          => /\ decision[1] = TRUE
             /\ decision[2] = IF MeanAbove(70) THEN "HIGH" ELSE "UNCERTAIN"
    /\ (cycle > 0 /\ use_selenium /\ http_in = HttpIndicators /\ sel_in = 0)
          => /\ decision = << TRUE, "HIGH" >>
             /\ disagree

C1_Witness ==
    /\ cycle > 0
    /\ NonUnknown = {<<"HTTP", "False", 95>>, <<"Selenium", "True", 80>>}
    /\ decision = << TRUE, "HIGH" >>
    /\ disagree

C3_DisagreementIffBothVerdicts ==
    [][ cycle' # cycle =>
          /\ disagree' <=> BothVerdicts'
          /\ (save_calls' = save_calls + 1) <=> BothVerdicts'
          /\ (save_calls' = save_calls) <=> ~BothVerdicts'
          /\ Cardinality(NonUnknown') = 1 => (~disagree' /\ save_calls' = save_calls) ]_vars

C3_Witness ==
    /\ cycle > 0
    /\ BothVerdicts
    /\ disagree
    /\ save_calls > 0
    /\ decision = << TRUE, "UNCERTAIN" >>

\* C4: with a non-empty set of non-Unknown observations, consensus_check returns
\* Capped if and only if no observation reports Available and the mean confidence
\* is above 0.8, and then with the label HIGH; when fewer than half report
\* Available and that condition fails it returns Available/UNCERTAIN.  A Capped
\* decision never carries the label UNCERTAIN.
C4_CappedOnlyOnStrongConsensus ==
    /\ (cycle > 0 /\ NonUnknown # {}) =>
          /\ decision[1] = FALSE <=> (AvailableObs = {} /\ MeanAbove(80))
          /\ decision[1] = FALSE => decision[2] = "HIGH"
          /\ (2 * Cardinality(AvailableObs) < Cardinality(NonUnknown)
                /\ ~(AvailableObs = {} /\ MeanAbove(80)))
                => decision = << TRUE, "UNCERTAIN" >>
    /\ (cycle > 0 /\ decision[1] = FALSE) => decision[2] # "UNCERTAIN"

C4_Witness ==
    /\ cycle > 0
    /\ NonUnknown = {<<"Selenium", "False", 80>>}
    /\ decision = << TRUE, "UNCERTAIN" >>

----------------------------------------------------------------------------
(* Claims on analyze_trend, under SpecTrend *)

LastOf(seq, n) == SubSeq(seq, Len(seq) - n + 1, Len(seq))

Min(a, b) == IF a < b THEN a ELSE b

\* C5: after any sequence of analyze_trend calls the history holds at most 10
\* entries, which are the most recent min(n, 10) states passed in, in arrival order.
C5_HistoryIsLastTen ==
    /\ Len(historical_states) <= 10
    /\ historical_states = LastOf(passed, Min(Len(passed), 10))

C5_Witness ==
    /\ Len(passed) = 12
    /\ Len(historical_states) = 10
    /\ passed[1] = TRUE
    /\ passed[2] = TRUE
    /\ passed[3] = FALSE
    /\ historical_states[1] = FALSE
    /\ historical_states[10] = passed[12]

ExpectedTrend(a, b, c) ==
    IF a /\ b /\ c THEN "CONSISTENTLY_AVAILABLE"
    ELSE IF ~a /\ ~b /\ ~c THEN "CONSISTENTLY_CAPPED"
    ELSE "FLUCTUATING"

\* C6: analyze_trend returns INSUFFICIENT_DATA on the first and the second call, and
\* from the third call on the label of the three most recent states passed in (the
\* current one included): CONSISTENTLY_AVAILABLE when all are True,
\* CONSISTENTLY_CAPPED when all are False, FLUCTUATING otherwise.
C6_TrendOfLastThree ==
    /\ Len(passed) \in {1, 2} => trend = "INSUFFICIENT_DATA"
    /\ Len(passed) >= 3 =>
          trend = ExpectedTrend(passed[Len(passed) - 2], passed[Len(passed) - 1], passed[Len(passed)])

C6_Witness ==
    /\ Len(passed) = 12
    /\ \A i \in 1..9 : passed[i] = FALSE
    /\ \A i \in 10..12 : passed[i] = TRUE
    /\ trend = "CONSISTENTLY_AVAILABLE"

----------------------------------------------------------------------------
(* Claims on cleanup_files, under SpecSweep.  A tier is the group the sweep    *)
(* put the artifact in; run is the record of the sweep that has just ended.   *)

Swept == run.at >= 0

\* the resolution of the two thinned tiers, in seconds
Resolution == [hourly_zone |-> 3600, daily_zone |-> 86400]

ThinnedZones == {"hourly_zone", "daily_zone"}

Gap(f, g) == IF f.ts >= g.ts THEN f.ts - g.ts ELSE g.ts - f.ts

\* f is listed before g: earlier timestamp, and the screenshot first at a tie
ListedBefore(f, g) ==
    \/ f.ts < g.ts
    \/ f.ts = g.ts /\ f.kind = "screenshot" /\ g.kind = "source"

LatestStamp(S) == CHOOSE t \in {f.ts : f \in S} : \A f \in S : f.ts <= t

\* C7: after a sweep, any two artifacts of the hourly tier that the sweep kept are
\* at least 1 hour apart, and any two of the daily tier at least 24 hours apart
\* (so are, in particular, those consecutive in timestamp order).
C7_KeptSpacedByResolution ==
    Swept =>
        \A z \in ThinnedZones :
            \A f, g \in run.kept \cap run.zone[z] :
                f # g => Gap(f, g) >= Resolution[z]

C7_Witness ==
    /\ Swept
    /\ run.zone["hourly_zone"] =
          {File("screenshot", 0), File("screenshot", 2400), File("screenshot", 4800)}
    /\ run.kept \cap run.zone["hourly_zone"] = {File("screenshot", 0), File("screenshot", 4800)}
    /\ run.marked = {File("screenshot", 2400)}

\* C8: in a thinned tier an artifact is marked for deletion only if its timestamp
\* is less than the tier's resolution after that of the most recently kept artifact
\* of the same tier listed before it; the first artifact listed in each tier is
\* kept, whatever its gap to the kept artifacts of another tier.
C8_MarkedOnlyWithinResolution ==
    Swept =>
        \A z \in ThinnedZones :
            /\ \A f \in run.marked \cap run.zone[z] :
                  LET before == {g \in run.kept \cap run.zone[z] : ListedBefore(g, f)}
                  IN  /\ before # {}
                      /\ f.ts - LatestStamp(before) < Resolution[z]
                      /\ f.ts - LatestStamp(before) >= 0
            /\ \A f \in run.zone[z] :
                  (\A g \in run.zone[z] \ {f} : ListedBefore(f, g)) => f \in run.kept
            /\ \A f \in run.zone[z] : f \in run.kept \/ f \in run.marked

C8_Witness ==
    /\ Swept
    /\ run.zone["daily_zone"] = {File("screenshot", 3600), File("source", 3600)}
    /\ run.marked = {File("source", 3600)}
    /\ File("screenshot", 3600) \in run.kept
    /\ File("screenshot", 4800) \in run.zone["hourly_zone"] \cap run.kept

\* C9: a cleanup_files call that directly follows a real sweep in which no deletion
\* failed, at the same time and over the store that sweep left, counts nothing as
\* deleted or failed and leaves the store as it was.
C9_SecondSweepDeletesNothing ==
    (Swept /\ run.repeat) =>
        /\ stats.deleted = 0
        /\ stats.errors = 0
        /\ run.marked = {}
        /\ run.after = run.before
        /\ store = run.before

C9_Witness ==
    /\ Swept
    /\ run.repeat
    /\ ~run.dry_run
    /\ run.prev_deleted >= 1
    /\ stats.deleted = 0
    /\ stats.kept >= 2
    /\ \E z \in ThinnedZones : Cardinality(run.kept \cap run.zone[z]) >= 2

\* C10: a sweep never marks for deletion, and never deletes, an artifact whose age
\* is at most 3 days.
C10_RecentNeverDeleted ==
    Swept =>
        \A f \in run.before :
            run.at - f.ts <= 3 * 86400 =>
                /\ f \notin run.marked
                /\ f \in run.after
                /\ f \in store

C10_Witness ==
    /\ Swept
    /\ ~run.dry_run
    /\ run.marked # {}
    /\ run.failed = {}
    /\ \E f \in run.before :
          /\ run.at - f.ts <= 3 * 86400
          /\ run.at - f.ts > 2 * 86400
          /\ f \in run.after

\* the age of an artifact at the sweep that has just ended, in seconds
ActualAge(f) == run.at - f.ts

\* the artifacts the sweep listed (line 44: screenshots and page sources)
Listed == {f \in run.before : f.kind \in {"screenshot", "source"}}

InHourlyAge(f) ==
    ActualAge(f) > keep_all_days * SecondsPerDay /\ ActualAge(f) <= hourly_days * SecondsPerDay

InDailyAge(f) ==
    ActualAge(f) > hourly_days * SecondsPerDay /\ ActualAge(f) <= daily_days * SecondsPerDay

\* C11: each listed artifact is thinned at the resolution of the tier in which its
\* actual age falls: the artifacts kept among those older than 3 days and at most
\* 14 days old are at least 1 hour apart, those kept among the ones older than 14
\* days and at most 365 days old at least 24 hours apart, and every artifact older
\* than 365 days is marked for deletion, the age being whole days or not.
C11_ThinnedByActualAge ==
    Swept =>
        /\ \A f, g \in run.kept :
              (f # g /\ InHourlyAge(f) /\ InHourlyAge(g)) => Gap(f, g) >= SecondsPerHour
        /\ \A f, g \in run.kept :
              (f # g /\ InDailyAge(f) /\ InDailyAge(g)) => Gap(f, g) >= SecondsPerDay
        /\ \A f \in Listed :
              ActualAge(f) > daily_days * SecondsPerDay => f \in run.marked

\* the outcome of the summary of main, lines 246-257, for the stats it received
main_summary(st, dry_run) ==
    IF ~dry_run /\ "size_freed" \notin DOMAIN st THEN "KeyError" ELSE "ok"

\* the outcome of the read of stats in _cleanup_debug_files, lines 619-622, before
\* its own except clause
monitor_summary(st) ==
    IF st.deleted > 0 /\ "size_freed" \notin DOMAIN st THEN "KeyError" ELSE "ok"

\* C14: a sweep over a store with nothing to list returns an all-zero result that
\* has every field of the normal result (kept, deleted, bytes freed), so the
\* summary of the cleanup command and the daily cleanup of the monitor both
\* complete without error.
C14_EmptySweepHasEveryField ==
    (Swept /\ Listed = {}) =>
        /\ {"kept", "deleted", "size_freed"} \subseteq DOMAIN stats
        /\ stats.kept = 0
        /\ stats.deleted = 0
        /\ main_summary(stats, run.dry_run) = "ok"
        /\ monitor_summary(stats) = "ok"

----------------------------------------------------------------------------
(* The archiver and the sweep on one store: disagreements are archived, time  *)
(* passes, the store is swept.                                                *)

\* the times of the clock between the archiver's calls and the sweeps
ArchiveClock == {200 * 86400, 400 * 86400, 800 * 86400}

InitArchive ==
    /\ use_selenium = TRUE
    /\ ConsensusIdle
    /\ TrendIdle
    /\ SweepIdle
    /\ StepIdle
    /\ AlertIdle
    /\ LoopIdle
    /\ now = 0
    /\ store = {}

NextArchive ==
    \/ \E outcome \in SaveOutcomes : save_debug_info(outcome)
    \/ \E t \in ArchiveClock : Tick(t)
    \/ \E dry_run \in BOOLEAN, failing \in SUBSET Deletable : cleanup_files(dry_run, failing)

SpecArchive == InitArchive /\ [][NextArchive]_vars

\* C20: every artifact the archiver wrote (analysis note, screenshot, page source)
\* is among the artifacts the sweep lists, and after a real sweep in which no
\* deletion failed no artifact older than 365 days is left in the store.
C20_ArchivedAreSwept ==
    (Swept /\ ~run.dry_run /\ run.failed = {}) =>
        /\ run.before \subseteq Listed
        /\ \A f \in store : ActualAge(f) <= daily_days * SecondsPerDay

----------------------------------------------------------------------------
(* cleanup_files, lines 108-169, one _delete_file call at a time, next to a   *)
(* second process that removes files of the same directory.                  *)

\* lines 118-126, 133, 148: the local stats before the first _delete_file call;
\* kept, which the code adds up tier by tier, is given its final value at once
StartTally(groups) ==
    [kept |-> Len(CountedKept(groups)), deleted |-> 0, errors |-> 0, size_freed |-> 0]

\* line 179: Path.unlink raises FileNotFoundError when the path is gone, and
\* raises when the file system refuses the removal
UnlinkRaises(present, refused) == ~present \/ refused

Remaining_abort(files, ok) == IF ok THEN Tail(files) ELSE <<>>

\* lines 137-141, 151-155, 159-163: the for loops go on to the next file
\* whatever _delete_file returned
Remaining(files, ok) == Tail(files)

\* lines 110-126: the listing, the grouping and the selection
begin_cleanup(dry_run) ==
    LET files == get_debug_files(store, now)
        groups == group_files_by_time_period(files)
        candidates == DeletionCandidates(groups)
    IN  /\ mode = "idle"
        /\ IF files = <<>>
           THEN /\ stats' = [kept |-> 0, deleted |-> 0, errors |-> 0]
                /\ mode' = "idle"
                /\ pending' = <<>>
                /\ planned' = <<>>
                /\ tally' = NoStats
                /\ attempts' = <<>>
           ELSE /\ stats' = NoStats
                /\ mode' = (IF dry_run THEN "dry" ELSE "real")
                /\ pending' = candidates
                /\ planned' = candidates
                /\ tally' = StartTally(groups)
                /\ attempts' = <<>>
        /\ UNCHANGED << now, store, run, settled >>
        /\ UNCHANGED consensusVars
        /\ UNCHANGED trendVars
        /\ UNCHANGED alertVars
        /\ UNCHANGED loopVars

\* lines 137-141 and 171-183: one _delete_file call and the update of stats
delete_file(refused) ==
    /\ mode # "idle"
    /\ pending # <<>>
    /\ LET fi == Head(pending)
           dry_run == (mode = "dry")
           present == fi.path \in store
           raises == UnlinkRaises(present, refused)
           ok == DeleteReturns(dry_run, raises)
           how == IF dry_run THEN "dry"
                  ELSE IF ~present THEN "gone"
                  ELSE IF refused THEN "refused" ELSE "unlinked"
       IN  /\ (dry_run \/ ~present) => ~refused
           /\ store' = IF Unlinked(dry_run, raises) THEN store \ {fi.path} ELSE store
           /\ tally' = IF ok
                       THEN [tally EXCEPT !.deleted = @ + 1, !.size_freed = @ + fi.size]
                       ELSE [tally EXCEPT !.errors = @ + 1]
           /\ pending' = Remaining(pending, ok)
           /\ attempts' = Append(attempts, [path |-> fi.path, size |-> fi.size, how |-> how])
    /\ UNCHANGED << mode, planned >>
    /\ UNCHANGED << now, stats, run, settled >>
    /\ UNCHANGED consensusVars
    /\ UNCHANGED trendVars
    /\ UNCHANGED alertVars
    /\ UNCHANGED loopVars

\* line 169: return stats
end_cleanup ==
    /\ mode # "idle"
    /\ pending = <<>>
    /\ stats' = tally
    /\ mode' = "idle"
    /\ UNCHANGED << pending, tally, planned, attempts >>
    /\ UNCHANGED << now, store, run, settled >>
    /\ UNCHANGED consensusVars
    /\ UNCHANGED trendVars
    /\ UNCHANGED alertVars
    /\ UNCHANGED loopVars

\* line 179 in a second process (the cleanup command next to the daily cleanup of
\* the monitor): a file this sweep still has to handle is removed
concurrent_unlink(f) ==
    /\ mode # "idle"
    /\ f \in store \cap Paths(pending)
    /\ store' = store \ {f}
    /\ UNCHANGED stepVars
    /\ UNCHANGED << now, stats, run, settled >>
    /\ UNCHANGED consensusVars
    /\ UNCHANGED trendVars
    /\ UNCHANGED alertVars
    /\ UNCHANGED loopVars

InitSteps ==
    /\ use_selenium = TRUE
    /\ ConsensusIdle
    /\ TrendIdle
    /\ SweepIdle
    /\ StepIdle
    /\ AlertIdle
    /\ LoopIdle
    /\ now \in Clock
    /\ store \in {S \in SUBSET FoundAtStart : Cardinality(S) <= MaxFiles}

NextSteps ==
    \/ \E dry_run \in BOOLEAN : begin_cleanup(dry_run)
    \/ \E refused \in BOOLEAN : delete_file(refused)
    \/ end_cleanup
    \/ \E f \in store : concurrent_unlink(f)

SpecSteps == InitSteps /\ [][NextSteps]_vars

\* the _delete_file calls made so far that met one of the outcomes of S
Met(S) == {i \in 1..Len(attempts) : attempts[i].how \in S}

RECURSIVE SizeOf(_)
SizeOf(I) == IF I = {} THEN 0 ELSE LET i == CHOOSE x \in I : TRUE IN attempts[i].size + SizeOf(I \ {i})

\* C12: a deletion that fails is counted in errors and not in deleted, and its size
\* is not added to the bytes freed; it does not end the sweep: the files marked
\* for deletion are all handed to _delete_file, in their order, whatever the
\* number and the place of the failures, and those whose removal succeeds are gone.
C12_FailureCountedSweepGoesOn ==
    planned # <<>> =>
        /\ tally.errors = Cardinality(Met({"gone", "refused"}))
        /\ tally.deleted = Cardinality(Met({"unlinked", "dry"}))
        /\ tally.size_freed = SizeOf(Met({"unlinked", "dry"}))
        /\ Len(attempts) + Len(pending) = Len(planned)
        /\ \A i \in 1..Len(attempts) : attempts[i].path = planned[i].path
        /\ \A i \in Met({"refused"}) : attempts[i].path \in store
        /\ \A i \in Met({"unlinked"}) : attempts[i].path \notin store
        /\ mode = "idle" => (Len(attempts) = Len(planned) /\ stats = tally)

C12_Witness ==
    /\ mode = "idle"
    /\ Len(planned) = 2
    /\ planned[1].age_days <= daily_days
    /\ planned[2].age_days > daily_days
    /\ attempts[1].how = "refused"
    /\ attempts[2].how = "unlinked"
    /\ stats.errors = 1
    /\ stats.deleted = 1
    /\ stats.size_freed = planned[2].size

\* C13: a file marked for deletion that is already gone when the sweep comes to
\* remove it is no error: only the removals the file system refused are counted
\* in errors.
C13_VanishedIsNoError ==
    planned # <<>> => tally.errors = Cardinality(Met({"refused"}))

----------------------------------------------------------------------------
(* AlertManager.send_alert, lines 64-92 *)

UncertainCooldown == 120
DefaultCooldown == 180

\* line 69
cooldown_seconds(confidence) ==
    IF confidence = "UNCERTAIN" THEN UncertainCooldown ELSE DefaultCooldown

AlertKey_shared(alert_type) == "ALERT"

\* lines 72, 73, 76: the key of last_alerts an alert is looked up and stored under
AlertKey(alert_type) == alert_type

\* lines 72-74: the call returns before it dispatches anything
InCooldown(alerts, alert_type, confidence, t) ==
    /\ AlertKey(alert_type) \in DOMAIN alerts
    /\ t - alerts[AlertKey(alert_type)] < cooldown_seconds(confidence)

\* line 76: self.last_alerts[alert_type] = now
Stamp(alerts, alert_type, t) ==
    [k \in DOMAIN alerts \cup {AlertKey(alert_type)} |->
        IF k = AlertKey(alert_type) THEN t ELSE alerts[k]]

Recorded_onSuccess(alerts, alert_type, t, failed) ==
    IF failed = {} THEN Stamp(alerts, alert_type, t) ELSE alerts

\* line 76 comes before the deliveries of lines 78-92: what is recorded does not
\* depend on how they end
Recorded(alerts, alert_type, t, failed) == Stamp(alerts, alert_type, t)

\* the calls run_monitor makes: lines 558-562, 575-579, 603-606
AlertRequests ==
    { <<"LIQUIDITY_AVAILABLE", "HIGH">>, <<"LIQUIDITY_AVAILABLE", "UNCERTAIN">>,
      <<"UNCERTAIN_AVAILABLE", "UNCERTAIN">>, <<"MONITOR_FAILURE", "HIGH">> }

send_alert(alert_type, confidence, failed) ==
    /\ failed \subseteq channels
    /\ IF InCooldown(last_alerts, alert_type, confidence, now)
       THEN /\ failed = {}
            /\ request' = [kind |-> alert_type, confidence |-> confidence, at |-> now,
                           dispatched |-> FALSE]
            /\ delivery' = NoDelivery
            /\ UNCHANGED << last_alerts, sent >>
       ELSE /\ last_alerts' = Recorded(last_alerts, alert_type, now, failed)
            /\ sent' = sent \cup {[kind |-> alert_type, at |-> now, confidence |-> confidence]}
            /\ request' = [kind |-> alert_type, confidence |-> confidence, at |-> now,
                           dispatched |-> TRUE]
            /\ delivery' = DeliveryOf(channels, failed)
    /\ UNCHANGED channels
    /\ UNCHANGED << now, store >>
    /\ UNCHANGED consensusVars
    /\ UNCHANGED trendVars
    /\ UNCHANGED sweepVars
    /\ UNCHANGED stepVars
    /\ UNCHANGED loopVars

\* a minute passes between two calls
AlertTick ==
    /\ now + 60 <= MaxMinutes * 60
    /\ now' = now + 60
    /\ UNCHANGED store
    /\ UNCHANGED consensusVars
    /\ UNCHANGED trendVars
    /\ UNCHANGED sweepVars
    /\ UNCHANGED stepVars
    /\ UNCHANGED alertVars
    /\ UNCHANGED loopVars

InitAlert ==
    /\ use_selenium = TRUE
    /\ ConsensusIdle
    /\ TrendIdle
    /\ SweepIdle
    /\ StepIdle
    /\ AlertIdle
    /\ LoopIdle
    /\ now = 0
    /\ store = {}

NextAlert ==
    \/ \E r \in AlertRequests, failed \in SUBSET channels : send_alert(r[1], r[2], failed)
    \/ AlertTick

SpecAlert == InitAlert /\ [][NextAlert]_vars

\* the cooldown the claim gives a request of confidence c, in seconds
ClaimedCooldown(c) == IF c = "UNCERTAIN" THEN 120 ELSE 180

\* C18: any two dispatched alerts of one kind are separated by at least the
\* cooldown of the later one (120 s if its confidence is UNCERTAIN, 180 s
\* otherwise); a request is dispatched unless an alert of its own kind was
\* dispatched less than its cooldown before it, whatever was dispatched of the
\* other kinds.
C18_CooldownPerKind ==
    /\ \A a, b \in sent :
          a.kind = b.kind =>
              /\ a.at = b.at => a = b
              /\ a.at < b.at => b.at - a.at >= ClaimedCooldown(b.confidence)
    /\ request.kind # "NONE" =>
          LET earlier == {a \in sent : a.kind = request.kind /\ a.at < request.at}
              mine == [kind |-> request.kind, at |-> request.at, confidence |-> request.confidence]
          IN  /\ request.dispatched => mine \in sent
              /\ ~request.dispatched =>
                    \E a \in sent : /\ a.kind = request.kind
                                    /\ a.at <= request.at
                                    /\ request.at - a.at < ClaimedCooldown(request.confidence)
              /\ (\A a \in earlier : request.at - a.at >= ClaimedCooldown(request.confidence))
                    => (request.dispatched \/ \E a \in sent : a.kind = request.kind /\ a.at = request.at)

C18_Witness ==
    /\ [kind |-> "LIQUIDITY_AVAILABLE", at |-> 0, confidence |-> "HIGH"] \in sent
    /\ [kind |-> "MONITOR_FAILURE", at |-> 60, confidence |-> "HIGH"] \in sent
    /\ [kind |-> "LIQUIDITY_AVAILABLE", at |-> 120, confidence |-> "UNCERTAIN"] \in sent
    /\ request = [kind |-> "LIQUIDITY_AVAILABLE", confidence |-> "HIGH", at |-> 240,
                  dispatched |-> FALSE]

----------------------------------------------------------------------------
(* run_monitor, lines 523-609: the cycle in steps.  pc is the step the loop   *)
(* is about to take.                                                         *)

\* MonitorConfig.check_interval, line 35
check_interval == 60

failure_threshold == 3

\* what the probes meet in a cycle of the loop: HTTP fails, or finds no indicator
\* capped, or all of them; Selenium fails, or has one vote for capped, or all
LoopHttpInputs == {Failed, 0, HttpIndicators}
LoopSeleniumInputs == {Failed, 1, SeleniumMethods}

\* how far the archiver gets in a cycle of the loop
LoopSaveOutcomes == {"ok", "no_driver"}

\* the time from the start of one cycle to the start of the next: the wait of
\* line 609 after a short cycle, or a day (for MaxDays days at most)
Elapsed == {check_interval, SecondsPerDay}

AlertFor_anyChange(current_state, confidence_level, prev, prev_confidence) ==
    IF current_state # prev
    THEN {<<"LIQUIDITY_AVAILABLE", confidence_level>>}
    ELSE IF current_state /\ confidence_level # prev_confidence /\ confidence_level = "UNCERTAIN"
         THEN {<<"UNCERTAIN_AVAILABLE", confidence_level>>}
         ELSE {}

\* lines 544-582: the send_alert call of a cycle, if there is one
AlertFor(current_state, confidence_level, prev, prev_confidence) ==
    LET state_changed == current_state # prev
        confidence_changed == confidence_level # prev_confidence
    IN  IF state_changed /\ current_state
        THEN {<<"LIQUIDITY_AVAILABLE", confidence_level>>}
        ELSE IF current_state /\ confidence_changed /\ confidence_level = "UNCERTAIN"
             THEN {<<"UNCERTAIN_AVAILABLE", confidence_level>>}
             ELSE {}

\* lines 64-92 for the calls of reqs (at most one): last_alerts, sent, request
Alerted(reqs) ==
    IF reqs = {}
    THEN UNCHANGED << last_alerts, sent, request, channels, delivery >>
    ELSE LET r == CHOOSE x \in reqs : TRUE
         IN  /\ IF InCooldown(last_alerts, r[1], r[2], now)
                THEN /\ request' = [kind |-> r[1], confidence |-> r[2], at |-> now,
                                    dispatched |-> FALSE]
                     /\ delivery' = NoDelivery
                     /\ UNCHANGED << last_alerts, sent >>
                ELSE /\ last_alerts' = Recorded(last_alerts, r[1], now, {})
                     /\ sent' = sent \cup {[kind |-> r[1], at |-> now, confidence |-> r[2]]}
                     /\ request' = [kind |-> r[1], confidence |-> r[2], at |-> now,
                                    dispatched |-> TRUE]
                     /\ delivery' = DeliveryOf(channels, {})
             /\ UNCHANGED channels

\* lines 431-444: both probes, one after the other.  raises: the except clause of
\* a probe raised itself (log_state at line 313 or 401, driver.quit at line 407).
observe(h, s, raises) ==
    /\ pc = "observe"
    /\ cycle < MaxCycles
    /\ IF use_selenium THEN s \in LoopSeleniumInputs ELSE s = NotRun
    /\ cycle' = cycle + 1
    /\ requested' = {}
    /\ IF raises
       THEN /\ h = Failed
            /\ s \in {Failed, NotRun}
            /\ pc' = "except"
            /\ events' = <<"raised">>
            /\ unknown_streak' = unknown_streak + 1
            /\ UNCHANGED << http_in, sel_in, results >>
       ELSE LET r1 == check_with_requests(h)
                r2 == IF use_selenium THEN check_with_selenium(s) ELSE Obs("None", 0)
            IN  /\ http_in' = h
                /\ sel_in' = s
                /\ results' = CollectResults(r1, r2)
                /\ pc' = "decide"
                /\ events' = IF use_selenium THEN <<"http", "selenium">> ELSE <<"http">>
                /\ unknown_streak' = IF results' = <<>> THEN unknown_streak + 1 ELSE 0
    /\ UNCHANGED << use_selenium, decision, disagree, save_calls, now, store >>
    /\ UNCHANGED << last_state, last_confidence, consecutive_failures, last_cleanup, prev_state, prev_label >>
    /\ UNCHANGED trendVars
    /\ UNCHANGED sweepVars
    /\ UNCHANGED stepVars
    /\ UNCHANGED alertVars

\* lines 446-476: the decision and the check for a disagreement
decide ==
    /\ pc = "decide"
    /\ decision' = ConsensusDecision(results)
    /\ disagree' = (results # <<>> /\ MethodsDisagree(results))
    /\ events' = Append(events, "decided")
    /\ pc' = IF disagree' THEN "archive" ELSE "trend"
    /\ UNCHANGED << use_selenium, http_in, sel_in, results, save_calls, cycle, now, store >>
    /\ UNCHANGED << last_state, last_confidence, consecutive_failures, last_cleanup,
                    requested, prev_state, prev_label, unknown_streak >>
    /\ UNCHANGED trendVars
    /\ UNCHANGED sweepVars
    /\ UNCHANGED stepVars
    /\ UNCHANGED alertVars

\* line 478: await self._save_debug_info(results), before consensus_check returns
archive(outcome) ==
    /\ pc = "archive"
    /\ store' = store \cup SavedFiles(now, outcome)
    /\ save_calls' = save_calls + 1
    /\ events' = Append(events, "archived")
    /\ pc' = "trend"
    /\ UNCHANGED << use_selenium, http_in, sel_in, results, decision, disagree, cycle, now >>
    /\ UNCHANGED << last_state, last_confidence, consecutive_failures, last_cleanup,
                    requested, prev_state, prev_label, unknown_streak >>
    /\ UNCHANGED trendVars
    /\ UNCHANGED sweepVars
    /\ UNCHANGED stepVars
    /\ UNCHANGED alertVars

\* lines 538-541: the failure counter is reset, the trend history updated
update_trend ==
    /\ pc = "trend"
    /\ consecutive_failures' = 0
    /\ historical_states' = AppendState(historical_states, decision[1])
    /\ trend' = ClassifyTrend(historical_states')
    /\ passed' = Append(passed, decision[1])
    /\ events' = Append(events, "trend")
    /\ pc' = "notify"
    /\ UNCHANGED consensusVars
    /\ UNCHANGED << now, store >>
    /\ UNCHANGED << last_state, last_confidence, last_cleanup, requested, prev_state, prev_label,
                    unknown_streak >>
    /\ UNCHANGED sweepVars
    /\ UNCHANGED stepVars
    /\ UNCHANGED alertVars

\* lines 543-586: the alert of the cycle, then last_state and last_confidence
notify ==
    /\ pc = "notify"
    /\ LET reqs == AlertFor(decision[1], decision[2], last_state, last_confidence)
       IN  /\ requested' = reqs
           /\ Alerted(reqs)
    /\ last_state' = decision[1]
    /\ last_confidence' = decision[2]
    /\ events' = Append(events, "notified")
    /\ pc' = "cleanup"
    /\ UNCHANGED consensusVars
    /\ UNCHANGED << now, store >>
    /\ UNCHANGED << consecutive_failures, last_cleanup, prev_state, prev_label, unknown_streak >>
    /\ UNCHANGED trendVars
    /\ UNCHANGED sweepVars
    /\ UNCHANGED stepVars

\* cleanup_files(dry_run=False), lines 108-169, as _cleanup_debug_files calls it:
\* the files it leaves in the store
SweptStore(st, t, failing) ==
    LET candidates == DeletionCandidates(group_files_by_time_period(get_debug_files(st, t)))
    IN  st \ {c.path : c \in {c \in Range(candidates) : Unlinked(FALSE, c.path \in failing)}}

\* line 593
CleanupDue(t, last) == (t - last) \div SecondsPerDay >= 1

\* lines 592-595 and 611-625: the daily cleanup; failing are the files whose
\* unlink raises
daily_cleanup(failing) ==
    /\ pc = "cleanup"
    /\ IF CleanupDue(now, last_cleanup)
       THEN /\ failing \subseteq Deletable
            /\ store' = SweptStore(store, now, failing)
            /\ last_cleanup' = now
            /\ events' = Append(events, "swept")
       ELSE /\ failing = {}
            /\ UNCHANGED << store, last_cleanup, events >>
    /\ pc' = "sleep"
    /\ UNCHANGED consensusVars
    /\ UNCHANGED now
    /\ UNCHANGED << last_state, last_confidence, consecutive_failures, requested, prev_state, prev_label,
                    unknown_streak >>
    /\ UNCHANGED trendVars
    /\ UNCHANGED sweepVars
    /\ UNCHANGED stepVars
    /\ UNCHANGED alertVars

AfterHandler_exit == "stopped"

\* line 609 follows the except clause: the loop goes to its wait
AfterHandler == "sleep"

\* lines 597-606: the except clause of the cycle
handle_exception ==
    /\ pc = "except"
    /\ consecutive_failures' = consecutive_failures + 1
    /\ LET reqs == IF consecutive_failures' >= failure_threshold
                   THEN {<<"MONITOR_FAILURE", "HIGH">>}
                   ELSE {}
       IN  /\ requested' = reqs
           /\ Alerted(reqs)
    /\ events' = Append(events, "handled")
    /\ pc' = AfterHandler
    /\ UNCHANGED consensusVars
    /\ UNCHANGED << now, store >>
    /\ UNCHANGED << last_state, last_confidence, last_cleanup, prev_state, prev_label, unknown_streak >>
    /\ UNCHANGED trendVars
    /\ UNCHANGED sweepVars
    /\ UNCHANGED stepVars

\* line 609, and the locals of the cycle that has ended
sleep(d) ==
    /\ pc = "sleep"
    /\ d = SecondsPerDay => now < MaxDays * SecondsPerDay
    /\ now' = now + d
    /\ pc' = "observe"
    /\ prev_state' = IF decision = NoDecision THEN prev_state
                     ELSE IF decision[1] THEN "Available" ELSE "Capped"
    /\ prev_label' = IF decision = NoDecision THEN prev_label ELSE decision[2]
    /\ http_in' = NotRun
    /\ sel_in' = NotRun
    /\ results' = <<>>
    /\ decision' = NoDecision
    /\ disagree' = FALSE
    /\ events' = <<>>
    /\ requested' = {}
    /\ UNCHANGED << use_selenium, save_calls, cycle, store >>
    /\ UNCHANGED << last_state, last_confidence, consecutive_failures, last_cleanup,
                    unknown_streak >>
    /\ UNCHANGED trendVars
    /\ UNCHANGED sweepVars
    /\ UNCHANGED stepVars
    /\ UNCHANGED alertVars

Init ==
    /\ use_selenium \in BOOLEAN
    /\ ConsensusIdle
    /\ TrendIdle
    /\ SweepIdle
    /\ StepIdle
    /\ AlertIdle
    /\ LoopIdle
    /\ now = 0
    /\ store = {}

Next ==
    \/ \E h \in LoopHttpInputs, s \in LoopSeleniumInputs \cup {NotRun}, raises \in BOOLEAN :
          observe(h, s, raises)
    \/ decide
    \/ \E outcome \in LoopSaveOutcomes : archive(outcome)
    \/ update_trend
    \/ notify
    \/ \E failing \in SUBSET store : daily_cleanup(failing)
    \/ handle_exception
    \/ \E d \in Elapsed : sleep(d)

Spec == Init /\ [][Next]_vars

\* lines 592-595 seen from the loop: the cleanup returns, whatever it removed
cleanup_returns ==
    /\ pc = "cleanup"
    /\ pc' = "sleep"
    /\ store' \in SUBSET store
    /\ last_cleanup' \in {last_cleanup, now}
    /\ events' \in {events, Append(events, "swept")}
    /\ UNCHANGED consensusVars
    /\ UNCHANGED now
    /\ UNCHANGED << last_state, last_confidence, consecutive_failures, requested, prev_state, prev_label,
                    unknown_streak >>
    /\ UNCHANGED trendVars
    /\ UNCHANGED sweepVars
    /\ UNCHANGED stepVars
    /\ UNCHANGED alertVars

\* the steps of a cycle that has begun
RunsOn ==
    \/ decide
    \/ \E outcome \in LoopSaveOutcomes : archive(outcome)
    \/ update_trend
    \/ notify
    \/ cleanup_returns
    \/ handle_exception
    \/ \E d \in Elapsed : sleep(d)

\* the loop is one coroutine and every call it awaits returns: a cycle that has
\* begun goes on to its next step
LiveSpec == Spec /\ WF_vars(RunsOn)

----------------------------------------------------------------------------
(* Claims on run_monitor, under Spec and LiveSpec *)

\* the cycle under way has decided and passed the alert step
Notified == pc \in {"cleanup", "sleep"} /\ decision # NoDecision

LiquidityRequested == \E r \in requested : r[1] = "LIQUIDITY_AVAILABLE"

\* C15: a cycle that decides Available when the cycle before it decided Capped
\* requests a LIQUIDITY_AVAILABLE alert with the confidence label of its decision;
\* a cycle that decides the state the cycle before it decided, or Capped after
\* Available, requests no LIQUIDITY_AVAILABLE alert.
C15_AlertOnCappedToAvailable ==
    Notified =>
        /\ (decision[1] /\ prev_state = "Capped")
              => <<"LIQUIDITY_AVAILABLE", decision[2]>> \in requested
        /\ (decision[1] /\ prev_state = "Available") => ~LiquidityRequested
        /\ (~decision[1] /\ prev_state \in {"Capped", "Available"}) => ~LiquidityRequested

C15_Witness ==
    /\ Notified
    /\ cycle = 3
    /\ passed = << TRUE, FALSE, TRUE >>
    /\ prev_state = "Capped"
    /\ decision = << TRUE, "UNCERTAIN" >>
    /\ requested = {<<"LIQUIDITY_AVAILABLE", "UNCERTAIN">>}

\* C16: the loop counts the cycles in a row in which no observer answered, and in
\* a cycle that brings that count to 3 or more it requests a MONITOR_FAILURE alert.
C16_FailuresCountedAndAlerted ==
    pc = "sleep" =>
        /\ consecutive_failures = unknown_streak
        /\ unknown_streak >= 3 => \E r \in requested : r[1] = "MONITOR_FAILURE"

\* C17: an exception raised in a cycle is caught and the step after its handling
\* is the wait of the loop; from wherever the loop is, it comes to a new
\* observation phase.
C17_LoopGoesOn ==
    /\ [][pc = "except" => pc' = "sleep"]_vars
    /\ [](pc # "observe" => <>(pc = "observe"))

C17_Witness ==
    /\ pc = "observe"
    /\ cycle = 3
    /\ consecutive_failures = 2
    /\ unknown_streak = 2
    /\ save_calls = 1

Earlier(a, j) == \E i \in 1..(j - 1) : events[i] = a

\* C19: in a cycle the decision is computed after every enabled observer has
\* returned or failed, the trend history is updated after the decision, and the
\* archiver runs after the trend history has been updated.
C19_StepsOrdered ==
    \A j \in 1..Len(events) :
        /\ events[j] = "decided" =>
              (Earlier("http", j) /\ (use_selenium => Earlier("selenium", j)))
        /\ events[j] = "trend" => Earlier("decided", j)
        /\ events[j] = "archived" => Earlier("trend", j)

----------------------------------------------------------------------------
(* run_monitor when the calls it awaits need not return *)

\* line 593 when less than a day has gone by since the last cleanup: nothing is
\* called
skip_cleanup ==
    /\ pc = "cleanup"
    /\ ~CleanupDue(now, last_cleanup)
    /\ pc' = "sleep"
    /\ UNCHANGED << store, last_cleanup, events >>
    /\ UNCHANGED consensusVars
    /\ UNCHANGED now
    /\ UNCHANGED << last_state, last_confidence, consecutive_failures, requested, prev_state, prev_label,
                    unknown_streak >>
    /\ UNCHANGED trendVars
    /\ UNCHANGED sweepVars
    /\ UNCHANGED stepVars
    /\ UNCHANGED alertVars

\* the steps of a cycle that has begun, without the two that wait for the browser
\* of the archiver (lines 505-507, no timeout) and for the sweep of the store
Returns ==
    \/ decide
    \/ update_trend
    \/ notify
    \/ skip_cleanup
    \/ handle_exception
    \/ \E d \in Elapsed : sleep(d)

\* _save_debug_info and _cleanup_debug_files are awaited in the coroutine of the
\* loop (lines 478, 594): the loop is at pc = "archive" or pc = "cleanup" for as
\* long as the call lasts.  Only the other steps are sure to be taken.
HangSpec == Spec /\ WF_vars(Returns)

\* C21: the loop does not wait for the archiver or for the sweep: from the step
\* at which the archiver is called, and from the step at which the daily cleanup
\* is due, the loop comes to its wait, whether or not the call ever returns.
C21_LoopDoesNotWaitForArchiverOrSweep ==
    /\ [](pc = "archive" => <>(pc = "sleep"))
    /\ [](pc = "cleanup" /\ CleanupDue(now, last_cleanup) => <>(pc = "sleep"))

----------------------------------------------------------------------------
(* the verdicts and confidences the observers produce, and the Capped decision *)

Reports(method) == {results[i] : i \in {i \in 1..Len(results) : results[i][1] = method}}

\* what each observer reports: one of two confidences, the lower one only with
\* the verdict Available, the verdict Capped only when every indicator says capped
ObserversReport ==
    /\ \A r \in Reports("HTTP") :
          /\ r[3] \in {HttpAgreeConf, HttpMixedConf}
          /\ r[3] = HttpAgreeConf <=> http_in \in {0, HttpIndicators}
          /\ r[3] = HttpMixedConf => r[2] = "True"
          /\ r[2] = "False" => http_in = HttpIndicators
    /\ \A r \in Reports("Selenium") :
          /\ r[3] \in {SeleniumAgreeConf, SeleniumMixedConf}
          /\ r[3] = SeleniumAgreeConf <=> sel_in \in {0, SeleniumMethods}
          /\ r[3] = SeleniumMixedConf => r[2] = "True"
          /\ r[2] = "False" => sel_in = SeleniumMethods

HttpReportsCapped == << "HTTP", "False", HttpAgreeConf >> \in Reports("HTTP")

SeleniumAbsentOrCapped ==
    \/ sel_in \in {NotRun, Failed}
    \/ << "Selenium", "False", SeleniumAgreeConf >> \in Reports("Selenium")

\* C28 as stated: an observer reports Capped only when all its indicators say
\* capped, and the decision is Capped only in a cycle in which HTTP reports
\* Capped with confidence 0.95 and Selenium is disabled, failed or reports Capped.
C28_CappedOnlyWithHttpCapped ==
    cycle > 0 =>
        /\ ObserversReport
        /\ decision[1] = FALSE => (HttpReportsCapped /\ SeleniumAbsentOrCapped)

\* C28 amended: the decision is Capped only in a cycle in which every observer
\* failed (label ERROR), or in which HTTP reports Capped with confidence 0.95 and
\* Selenium is disabled, failed or reports Capped; in a cycle in which some
\* observer answers and HTTP does not report Capped, the decision is Available.
C28_CappedOnlyWithHttpCappedOrTotalFailure ==
    cycle > 0 =>
        /\ ObserversReport
        /\ decision[1] = FALSE =>
              \/ results = <<>> /\ decision = << FALSE, "ERROR" >>
              \/ HttpReportsCapped /\ SeleniumAbsentOrCapped
        /\ (results # <<>> /\ ~HttpReportsCapped) => decision[1] = TRUE
        /\ (HttpReportsCapped /\ SeleniumAbsentOrCapped) => decision = << FALSE, "HIGH" >>

C28_Witness ==
    /\ cycle > 0
    /\ use_selenium
    /\ http_in = Failed
    /\ sel_in = SeleniumMethods
    /\ Reports("Selenium") = {<< "Selenium", "False", SeleniumAgreeConf >>}
    /\ decision[1] = TRUE

----------------------------------------------------------------------------
(* the accounts of a sweep *)

RECURSIVE SizeSum(_)
\* the sizes of a set of artifacts, added up
SizeSum(S) ==
    IF S = {} THEN 0
    ELSE LET f == CHOOSE x \in S : TRUE IN ArtifactSize[f.kind] + SizeSum(S \ {f})

\* the artifacts of the last sweep that _delete_file reported deleted
CountedDeleted == run.marked \ run.failed

\* C25: on return from a sweep that listed at least one artifact, kept + deleted
\* + errors is the number of artifacts listed, size_freed is the sum of the sizes
\* of the artifacts counted as deleted, and unless it was a dry run every
\* artifact counted as deleted is gone from the store and every artifact counted
\* as kept is still there.
C25_SweepAccountsBalance ==
    (Swept /\ Listed # {}) =>
        /\ stats.kept + stats.deleted + stats.errors = Cardinality(Listed)
        /\ stats.kept = Cardinality(run.kept)
        /\ stats.deleted = Cardinality(CountedDeleted)
        /\ stats.errors = Cardinality(run.failed)
        /\ run.kept \cup run.marked = Listed
        /\ run.kept \cap run.marked = {}
        /\ stats.size_freed = SizeSum(CountedDeleted)
        /\ ~run.dry_run =>
              /\ CountedDeleted \cap store = {}
              /\ run.kept \subseteq store

C25_Witness ==
    /\ Swept
    /\ ~run.dry_run
    /\ stats.kept = 1
    /\ stats.deleted = 1
    /\ stats.errors = 1
    /\ stats.size_freed = ArtifactSize["screenshot"]
    /\ Cardinality(store) = 2

\* a call of cleanup_files has returned in this step
SweepReturned == run' # run /\ run'.at >= 0

\* C26: a dry run leaves the store as it is, and the sweep that follows a dry run
\* of the same store at the same time, be it a dry run again or a real sweep in
\* which no deletion fails, reports the kept and deleted counts of the dry run.
C26_DryRunReportsWhatARealSweepWould ==
    [][SweepReturned =>
          /\ run'.dry_run => store' = store
          /\ (Swept /\ run.dry_run /\ run'.at = run.at /\ run'.before = run.before
                /\ (run'.dry_run \/ run'.failed = {})) =>
                /\ stats'.kept = stats.kept
                /\ stats'.deleted = stats.deleted]_vars

\* a real sweep without failure that deleted two artifacts of a full store, after
\* a call that had reported two deleted and had left them in the store
C26_Witness ==
    /\ Swept
    /\ ~run.dry_run
    /\ run.failed = {}
    /\ Cardinality(run.before) = 3
    /\ stats.deleted = 2
    /\ run.prev_deleted = 2
    /\ stats.kept = 1
    /\ Cardinality(store) = 1

----------------------------------------------------------------------------
(* the two artifacts of one capture in a thinned tier *)

\* the screenshot and the page source of the capture at ts are both in zone z
PairIn(z, ts) == {File("screenshot", ts), File("source", ts)} \subseteq run.zone[z]

\* C27: the artifacts one call of the archiver writes carry one timestamp; of
\* the artifacts of one timestamp in the hourly or the daily tier a sweep keeps
\* at most one, none survives a real sweep next to another, and when the pair is
\* the oldest of its tier the screenshot is kept and the page source goes.
C27_OnePerCaptureInThinnedTier ==
    /\ [][\A f, g \in store' \ store : f.ts = g.ts]_vars
    /\ [](Swept =>
            \A z \in ThinnedZones :
                /\ \A f, g \in run.kept \cap run.zone[z] : f.ts = g.ts => f = g
                /\ (~run.dry_run /\ run.failed = {}) =>
                      \A f, g \in store \cap run.zone[z] : f.ts = g.ts => f = g
                /\ \A f \in run.zone[z] :
                      PairIn(z, f.ts) =>
                          /\ File("source", f.ts) \in run.marked
                          /\ (\A g \in run.zone[z] : g.ts >= f.ts) =>
                                File("screenshot", f.ts) \in run.kept)

\* the three artifacts of one disagreement, twelve days later: the page source
\* is gone, the screenshot and the analysis note are left
C27_Witness ==
    /\ Swept
    /\ ~run.dry_run
    /\ run.before = {File("analysis", 3 * 86400 + 3600), File("screenshot", 3 * 86400 + 3600),
                     File("source", 3 * 86400 + 3600)}
    /\ PairIn("hourly_zone", 3 * 86400 + 3600)
    /\ run.kept = {File("screenshot", 3 * 86400 + 3600)}
    /\ store = {File("analysis", 3 * 86400 + 3600), File("screenshot", 3 * 86400 + 3600)}

----------------------------------------------------------------------------
(* the archiver, the alerts and the previous state, seen from the loop *)

\* the archiver has returned in this cycle without the screenshot or without the
\* page source
CaptureFailed ==
    /\ "archived" \in Range(events)
    /\ ~({File("screenshot", now), File("source", now)} \subseteq store)

\* C22: when the snapshot capture fails, the analysis note of the disagreement is
\* in the store and stays there, consensus_check returns (the loop goes on to
\* the trend update, not to its except clause) and the decision it returns is
\* the one taken before the archiver was called.
C22_CaptureFailureKeepsNoteAndDecision ==
    /\ [][(pc = "archive" /\ pc' # "archive") =>
             /\ pc' = "trend"
             /\ decision' = decision
             /\ store \subseteq store'
             /\ File("analysis", now) \in store']_vars
    /\ [](CaptureFailed =>
             /\ File("analysis", now) \in store
             /\ decision = ConsensusDecision(results)
             /\ pc # "except"
             /\ "trend" \in Range(events) => passed[Len(passed)] = decision[1])

C22_Witness ==
    /\ CaptureFailed
    /\ pc = "sleep"
    /\ store = {File("analysis", now)}
    /\ decision = << TRUE, "UNCERTAIN" >>
    /\ passed = << TRUE >>
    /\ events = << "http", "selenium", "decided", "archived", "trend", "notified" >>

\* C23: a cycle that decides Available with label UNCERTAIN right after a cycle
\* that decided Available with label UNCERTAIN requests the UNCERTAIN_AVAILABLE
\* alert.
C23_UncertainAvailableKeepsAlerting ==
    (Notified /\ decision = << TRUE, "UNCERTAIN" >>
        /\ prev_state = "Available" /\ prev_label = "UNCERTAIN") =>
        << "UNCERTAIN_AVAILABLE", "UNCERTAIN" >> \in requested

\* a cycle in which no observer answered has been decided
TotalFailure == decision # NoDecision /\ results = <<>>

\* C29: no previous decision and a total failure count as a previous state of
\* Capped: the first cycle that decides Available requests LIQUIDITY_AVAILABLE,
\* a cycle in which every observer failed hands Capped to the trend history and
\* leaves last_state at Capped, and a cycle that decides Available after such a
\* cycle requests LIQUIDITY_AVAILABLE, whatever the cycles before had decided.
C29_NoDecisionAndTotalFailureAreCapped ==
    /\ (Notified /\ decision[1] /\ (\A i \in 1..(Len(passed) - 1) : ~passed[i])) =>
          << "LIQUIDITY_AVAILABLE", decision[2] >> \in requested
    /\ (Notified /\ decision[1] /\ prev_label = "ERROR") =>
          << "LIQUIDITY_AVAILABLE", decision[2] >> \in requested
    /\ (TotalFailure /\ "trend" \in Range(events)) =>
          /\ passed[Len(passed)] = FALSE
          /\ historical_states[Len(historical_states)] = FALSE
    /\ (TotalFailure /\ Notified) =>
          /\ last_state = FALSE
          /\ requested = {}

C29_Witness ==
    /\ Notified
    /\ cycle = 3
    /\ passed = << TRUE, FALSE, TRUE >>
    /\ historical_states = << TRUE, FALSE, TRUE >>
    /\ prev_label = "ERROR"
    /\ decision = << TRUE, "HIGH" >>
    /\ requested = {<< "LIQUIDITY_AVAILABLE", "HIGH" >>}

----------------------------------------------------------------------------
(* send_alert with channels whose delivery may fail *)

\* lines 81, 84, 87: the keys of the alert configuration
Channels == {"email", "discord_webhook", "pushover"}

\* the calls of one kind, with either cooldown
DeliveryRequests == { <<"LIQUIDITY_AVAILABLE", "HIGH">>, <<"LIQUIDITY_AVAILABLE", "UNCERTAIN">> }

InitDelivery ==
    /\ use_selenium = TRUE
    /\ ConsensusIdle
    /\ TrendIdle
    /\ SweepIdle
    /\ StepIdle
    /\ LoopIdle
    /\ last_alerts = NoAlerts
    /\ sent = {}
    /\ request = NoRequest
    /\ channels \in SUBSET Channels
    /\ delivery = NoDelivery
    /\ now = 0
    /\ store = {}

NextDelivery ==
    \/ \E r \in DeliveryRequests, failed \in SUBSET channels : send_alert(r[1], r[2], failed)
    \/ AlertTick

SpecDelivery == InitDelivery /\ [][NextDelivery]_vars

\* the channels whose delivery failed in the last send_alert call
FailedChannels == {c \in DOMAIN delivery.results : delivery.results[c] = "logged"}

\* C24: whatever channels fail, send_alert returns; a request that is accepted
\* makes one delivery attempt on each configured channel and no other, and the
\* time of the request is recorded for its kind even when a delivery fails; a
\* request suppressed by the cooldown makes no attempt and leaves the recorded
\* times as they were.
C24_AtMostOnceNonPropagating ==
    /\ [](request.kind # "NONE" =>
            /\ \A c \in DOMAIN delivery.results : delivery.results[c] \in {"delivered", "logged"}
            /\ request.dispatched =>
                  /\ DOMAIN delivery.attempts = channels
                  /\ \A c \in channels : delivery.attempts[c] = 1
                  /\ request.kind \in DOMAIN last_alerts
                  /\ last_alerts[request.kind] = request.at
            /\ ~request.dispatched =>
                  /\ DOMAIN delivery.attempts = {}
                  /\ request.kind \in DOMAIN last_alerts
                  /\ last_alerts[request.kind] < request.at
                        \/ [kind |-> request.kind, at |-> request.at] \in
                              {[kind |-> a.kind, at |-> a.at] : a \in sent})
    /\ [][(request' # request /\ ~request'.dispatched) =>
             /\ last_alerts' = last_alerts
             /\ sent' = sent]_vars
    /\ [][(request' # request /\ request'.dispatched /\ request.dispatched
             /\ request'.kind = request.kind /\ FailedChannels # {}) =>
             request'.at - request.at >= cooldown_seconds(request'.confidence)]_vars

\* a request accepted three minutes after the last one of its kind: one attempt
\* on each of the three channels, two of which failed, and its time is recorded
C24_Witness ==
    /\ channels = Channels
    /\ [kind |-> "LIQUIDITY_AVAILABLE", at |-> 0, confidence |-> "UNCERTAIN"] \in sent
    /\ request = [kind |-> "LIQUIDITY_AVAILABLE", confidence |-> "HIGH", at |-> 180,
                  dispatched |-> TRUE]
    /\ delivery.attempts = [c \in Channels |-> 1]
    /\ FailedChannels = {"email", "pushover"}
    /\ last_alerts = [k \in {"LIQUIDITY_AVAILABLE"} |-> 180]

====
